---- MODULE Spec2Model ----
(***************************************************************************)
(* A model of flow, a realtime log viewer: the dispatcher loop of          *)
(* core/flow.rs (Flow::process and the handlers it routes to), the         *)
(* persistent style state of ui/ansi_converter.rs (CursesStyle::print),    *)
(* its colour pairs (init_ansi_colors) and its escape-sequence tokenizer   *)
(* (AnsiStr).                                                              *)
(*                                                                         *)
(* LineCollection, Buffer, BufferCollection, Frame and the search widget   *)
(* are used by flow.rs but their code is not part of the sources at hand;  *)
(* the operators that stand for them follow the written specification and  *)
(* say so in their comments.                                               *)
(***************************************************************************)
EXTENDS Integers, Sequences, FiniteSets, TLC

(***************************************************************************)
(* Bounds of the model.                                                    *)
(***************************************************************************)
\* lines pushed by all producers together
MaxPushed == 3
\* largest max_lines_count a run is configured with
MaxCapacity == 2
\* largest viewport height the terminal reports
MaxHeight == 2
\* largest |value| of an Offset::Line event
MaxScroll == 3
\* largest |value| of an Offset::Viewport event
MaxPages == 1

(***************************************************************************)
(* Values.                                                                 *)
(***************************************************************************)
\* the producers of lines; the first writes ERROR records, the second INFO
Producers == {"p1", "p2"}

\* Option::None
None == "None"

\* the text of the line a producer pushes
Content(line) == IF line.src = "p1" THEN "ERROR" ELSE "INFO"

\* the tabs of the configuration file: one without a pattern, one for ERROR
Filters == << None, "ERROR" >>

\* the texts the search input field can hold ("" is the empty field)
QueryTexts == {"", "ERROR"}

Min(a, b) == IF a < b THEN a ELSE b

Max(a, b) == IF a > b THEN a ELSE b

VARIABLES
    running,         \* core::runner::RUNNING
    pc,              \* the dispatcher's position in Flow::process
    lock,            \* holder of the Mutex around the queue
    queue,           \* the shared Vec<String>
    pending,         \* pending_lines, drained from the queue
    pushed,          \* lines each producer has pushed so far
    lines,           \* Flow.lines (LineCollection)
    capacity,        \* LineCollection.max_lines_count
    reverse_index,   \* Buffer.reverse_index of every buffer
    selected,        \* BufferCollection's selected index
    height,          \* frame.plane.height
    virtual_height,  \* frame.plane.virtual_height()
    scroll_pos,      \* the offset last given to frame.scroll
    search_text,     \* the search input field
    filter_mode,     \* the search widget's filter mode
    printed_query,   \* the query of the last frame.print
    appended,        \* history: every line given to LineCollection.extend
    active_values,   \* ACTIVE_VALUES: (attribute stack, foreground, background)
    window_attrs,    \* the attributes switched on in the ncurses window
    window_pair,     \* the colour pair switched on in the ncurses window
    style_line,      \* the line AnsiLine::print is printing
    last_style,      \* history: the style component printed last
    color_line,      \* history: the line each side's colour was last set on
    before_values,   \* history: ACTIVE_VALUES before the last style component
    input,           \* the str given to break_to_ncurses_components
    last_end,        \* FindCaptures.last_end
    last_match,      \* FindCaptures.last_match
    components,      \* the components pushed so far
    parse_done,      \* captures_iter is exhausted, components returned
    plane_height,          \* Flow::scroll alone: frame.plane.height
    plane_virtual_height,  \* Flow::scroll alone: frame.plane.virtual_height()
    buffer_index,          \* Flow::scroll alone: the buffer's reverse_index
    index_before,          \* history: the reverse_index before the event
    handled,               \* history: the Offset handled last
    index_start,           \* history: the reverse_index two events ago
    handled_before,        \* history: the Offset handled before the last
    color_pairs,           \* the colour pairs ncurses holds after init_pair
    foreground_index,      \* init_ansi_colors: position of the outer loop
    background_index,      \* init_ansi_colors: position of the inner loop
    requested              \* the (foreground, background) a pair is asked for

flowVars == << running, pc, lock, queue, pending, pushed, lines, capacity,
               reverse_index, selected, height, virtual_height, scroll_pos,
               search_text, filter_mode, printed_query, appended >>

styleVars == << active_values, window_attrs, window_pair, style_line,
                last_style, color_line, before_values >>

ansiVars == << input, last_end, last_match, components, parse_done >>

scrollVars == << plane_height, plane_virtual_height, buffer_index,
                 index_before, handled, index_start, handled_before >>

colorVars == << color_pairs, foreground_index, background_index, requested >>

vars == << flowVars, styleVars, ansiVars, scrollVars, colorVars >>

(***************************************************************************)
(* LineCollection, Buffer, BufferCollection, Frame: from the specification *)
(***************************************************************************)
\* Filter / query match against a line's content; no pattern matches all
Matches(pattern, line) == pattern = None \/ pattern = Content(line)

\* LineCollection::extend
extend(ls, new_lines) == ls \o new_lines

\* LineCollection::clear_excess: trims from the front until len <= capacity
clear_excess(ls, cap) ==
    IF Len(ls) > cap THEN SubSeq(ls, Len(ls) - cap + 1, Len(ls)) ELSE ls

\* Buffer::parse: the lines of the collection the buffer's filter matches
parse(buffer, ls) == SelectSeq(ls, LAMBDA l : Matches(Filters[buffer], l))

\* Option<Query>::None
NoQuery == [text |-> "", filter_mode |-> FALSE]

\* Search::build_query: no query for an empty input field
build_query(text, mode) ==
    IF text = "" THEN NoQuery ELSE [text |-> text, filter_mode |-> mode]

\* Frame::print: the rows printed; in filter mode only the query's matches
print(view, query) ==
    IF query # NoQuery /\ query.filter_mode
    THEN SelectSeq(view, LAMBDA l : Matches(query.text, l))
    ELSE view

\* Buffer::adjust_reverse_index: reverse_index + value clamped to [0, max_value]
adjust_reverse_index(ri, value, max_value) == Max(0, Min(ri + value, max_value))

\* Buffer::is_scrolled
is_scrolled(ri) == ri # 0

\* BufferCollection::select_previous / select_next: clamped, no wraparound
select_previous(sel) == Max(1, sel - 1)

select_next(sel) == Min(Len(Filters), sel + 1)

(***************************************************************************)
(* Flow (core/flow.rs)                                                     *)
(***************************************************************************)
\* 2^64 does not fit TLC's integers: the usize modulus is scaled down to
\* 2^30, far above every height and offset the model reaches
UsizeModulus == 1073741824

\* `x as usize` of an i32
as_usize(x) == IF x < 0 THEN UsizeModulus + x ELSE x

\* `x as i32` of a usize
as_i32(x) == IF x >= UsizeModulus \div 2 THEN x - UsizeModulus ELSE x

\* max_value without the viewport height taken off
max_value_of_view(vh, h) == vh

\* Flow::scroll, max_value
max_value(vh, h) == vh - h

\* Flow::scroll, the delta of Offset::Viewport(value)
viewport_delta(value, h) == value * h - 4

Offsets ==
    [kind : {"Line"}, value : (-MaxScroll) .. MaxScroll]
        \cup [kind : {"Viewport"}, value : (-MaxPages) .. MaxPages]
        \cup {[kind |-> "Top", value |-> 0], [kind |-> "Bottom", value |-> 0]}

\* Flow::scroll: the reverse_index the selected buffer is left with
scroll_index(ri, offset, vh, h) ==
    CASE offset.kind = "Line" ->
            adjust_reverse_index(ri, offset.value, max_value(vh, h))
      [] offset.kind = "Viewport" ->
            adjust_reverse_index(ri, viewport_delta(offset.value, h), max_value(vh, h))
      [] offset.kind = "Top" -> as_usize(max_value(vh, h))
      [] offset.kind = "Bottom" -> 0

\* the largest virtual height Flow::scroll is applied to
MaxVirtualHeight == 10
\* the largest viewport height Flow::scroll is applied to
MaxPlaneHeight == 4

\* no Offset handled yet
NoOffset == [kind |-> "None", value |-> 0]

\* Flow::scroll is not under study
ScrollStart ==
    /\ plane_height = 0
    /\ plane_virtual_height = 0
    /\ buffer_index = 0
    /\ index_before = 0
    /\ handled = NoOffset
    /\ index_start = 0
    /\ handled_before = NoOffset

\* a buffer and a frame as any run of the dispatcher can leave them: the
\* index of a tab scrolled earlier outlives a resize done on another tab and
\* the eviction of lines, so it is not bound to the present heights
ScrollInit ==
    /\ plane_height \in 0 .. MaxPlaneHeight
    /\ plane_virtual_height \in 0 .. MaxVirtualHeight
    /\ buffer_index \in 0 .. MaxVirtualHeight
    /\ index_before = buffer_index
    /\ handled = NoOffset
    /\ index_start = buffer_index
    /\ handled_before = NoOffset

\* Flow::scroll(offset) on that buffer and frame
Scroll(offset) ==
    /\ buffer_index' = scroll_index(buffer_index, offset, plane_virtual_height,
                                    plane_height)
    /\ index_before' = buffer_index
    /\ handled' = offset
    /\ index_start' = index_before
    /\ handled_before' = handled
    /\ UNCHANGED << plane_height, plane_virtual_height, flowVars, styleVars,
                    ansiVars, colorVars >>

\* append_incoming_lines without its clear_excess
lines_after_append_untrimmed(ls, pending_lines, cap) == extend(ls, pending_lines)

\* Flow::append_incoming_lines: the collection it leaves
lines_after_append(ls, pending_lines, cap) ==
    clear_excess(extend(ls, pending_lines), cap)

\* Flow::reset_view: the virtual height after printing without a query
reset_view_height(buffer, ls) == Len(print(parse(buffer, ls), NoQuery))

\* Flow::perform_search: the virtual height after printing with the query
perform_search_height(buffer, ls, query) == Len(print(parse(buffer, ls), query))

\* the state of the dispatcher before Flow::process starts
FlowInit ==
    /\ running = TRUE
    /\ pc = "watch"
    /\ lock = "none"
    /\ queue = << >>
    /\ pending = << >>
    /\ pushed = [p \in Producers |-> 0]
    /\ lines = << >>
    /\ capacity \in 0 .. MaxCapacity
    /\ reverse_index = [b \in 1 .. Len(Filters) |-> 0]
    /\ selected = 1
    /\ height \in 0 .. MaxHeight
    /\ virtual_height = 0
    /\ scroll_pos = 0
    /\ search_text = ""
    /\ filter_mode = FALSE
    /\ printed_query = NoQuery
    /\ appended = << >>

(***************************************************************************)
(* The style state (ui/ansi_converter.rs)                                  *)
(***************************************************************************)
COLOR_BLACK == 0
COLOR_RED == 1
COLOR_GREEN == 2
COLOR_YELLOW == 3
COLOR_BLUE == 4
COLOR_MAGENTA == 5
COLOR_CYAN == 6
COLOR_WHITE == 7
COLOR_DEFAULT == -9

\* Option<i16>::None of CursesStyle::Color, a value no colour has
NoColor == -1

Abs(x) == IF x < 0 THEN -x ELSE x

\* an id that adds the two colours without the factor 10
build_color_id_unweighted(foreground_color, background_color) ==
    100 + Abs(foreground_color) + Abs(background_color)

build_color_id(foreground_color, background_color) ==
    100 + Abs(foreground_color) * 10 + Abs(background_color)

\* CursesStyle::Attribute(prop, active)
Attribute(prop, active) ==
    [kind |-> "Attribute", prop |-> prop, active |-> active,
     foreground |-> NoColor, background |-> NoColor]

\* CursesStyle::Color(foreground, background)
Color(foreground, background) ==
    [kind |-> "Color", prop |-> "", active |-> FALSE,
     foreground |-> foreground, background |-> background]

\* CursesStyle::Reset
Reset ==
    [kind |-> "Reset", prop |-> "", active |-> FALSE,
     foreground |-> NoColor, background |-> NoColor]

\* no style: a code the table does not hold, no component printed yet
NoStyle ==
    [kind |-> "None", prop |-> "", active |-> FALSE,
     foreground |-> NoColor, background |-> NoColor]

\* the table, keyed by the digits between "[" and "m"
ANSI_TO_NCURSES_MAPPING ==
    (<< "0" >> :> Reset)
    @@ (<< "1" >> :> Attribute("A_BOLD", TRUE))
    @@ (<< "3" >> :> Attribute("A_STANDOUT", TRUE))
    @@ (<< "4" >> :> Attribute("A_UNDERLINE", TRUE))
    @@ (<< "7" >> :> Attribute("A_REVERSE", TRUE))
    @@ (<< "9" >> :> Attribute("A_DIM", TRUE))
    @@ (<< "2", "2" >> :> Attribute("A_BOLD", FALSE))
    @@ (<< "2", "3" >> :> Attribute("A_STANDOUT", FALSE))
    @@ (<< "2", "4" >> :> Attribute("A_UNDERLINE", FALSE))
    @@ (<< "2", "7" >> :> Attribute("A_REVERSE", FALSE))
    @@ (<< "2", "9" >> :> Attribute("A_DIM", FALSE))
    @@ (<< "3", "0" >> :> Color(COLOR_BLACK, NoColor))
    @@ (<< "3", "1" >> :> Color(COLOR_RED, NoColor))
    @@ (<< "3", "2" >> :> Color(COLOR_GREEN, NoColor))
    @@ (<< "3", "3" >> :> Color(COLOR_YELLOW, NoColor))
    @@ (<< "3", "4" >> :> Color(COLOR_BLUE, NoColor))
    @@ (<< "3", "5" >> :> Color(COLOR_MAGENTA, NoColor))
    @@ (<< "3", "6" >> :> Color(COLOR_CYAN, NoColor))
    @@ (<< "3", "7" >> :> Color(COLOR_WHITE, NoColor))
    @@ (<< "3", "9" >> :> Color(COLOR_DEFAULT, NoColor))
    @@ (<< "4", "0" >> :> Color(NoColor, COLOR_BLACK))
    @@ (<< "4", "1" >> :> Color(NoColor, COLOR_RED))
    @@ (<< "4", "2" >> :> Color(NoColor, COLOR_GREEN))
    @@ (<< "4", "3" >> :> Color(NoColor, COLOR_YELLOW))
    @@ (<< "4", "4" >> :> Color(NoColor, COLOR_BLUE))
    @@ (<< "4", "5" >> :> Color(NoColor, COLOR_MAGENTA))
    @@ (<< "4", "6" >> :> Color(NoColor, COLOR_CYAN))
    @@ (<< "4", "7" >> :> Color(NoColor, COLOR_WHITE))
    @@ (<< "4", "9" >> :> Color(NoColor, COLOR_DEFAULT))

\* the style components the lines printed by the model carry
StyleCodes ==
    { << "0" >>, << "1" >>, << "4" >>, << "2", "2" >>, << "2", "4" >>,
      << "3", "1" >>, << "3", "4" >>, << "3", "9" >>,
      << "4", "1" >>, << "4", "4" >>, << "4", "9" >> }

\* the initial value of ACTIVE_VALUES
ACTIVE_VALUES ==
    [attributes |-> << >>, foreground |-> COLOR_DEFAULT,
     background |-> COLOR_DEFAULT]

\* Option::unwrap_or
unwrap_or(option, default) == IF option = NoColor THEN default ELSE option

\* a Color that puts the default on the side it does not name
print_style_defaulting(style, av) ==
    CASE style.kind = "Attribute" ->
            IF style.active
            THEN [av EXCEPT !.attributes = Append(@, style.prop)]
            ELSE av
      [] style.kind = "Color" ->
            [av EXCEPT !.foreground = unwrap_or(style.foreground, COLOR_DEFAULT),
                       !.background = unwrap_or(style.background, COLOR_DEFAULT)]
      [] style.kind = "Reset" -> [av EXCEPT !.attributes = << >>]

\* CursesStyle::print: the ACTIVE_VALUES it leaves
print_style(style, av) ==
    CASE style.kind = "Attribute" ->
            IF style.active
            THEN [av EXCEPT !.attributes = Append(@, style.prop)]
            ELSE av
      [] style.kind = "Color" ->
            [av EXCEPT !.foreground = unwrap_or(style.foreground, av.foreground),
                       !.background = unwrap_or(style.background, av.background)]
      [] style.kind = "Reset" -> [av EXCEPT !.attributes = << >>]

\* CursesStyle::print: the attributes on in the window after wattron / wattroff
print_attrs(style, av, attrs) ==
    CASE style.kind = "Attribute" ->
            IF style.active THEN attrs \cup {style.prop}
                            ELSE attrs \ {style.prop}
      [] style.kind = "Color" -> attrs
      [] style.kind = "Reset" ->
            attrs \ {av.attributes[i] : i \in 1 .. Len(av.attributes)}

\* CursesStyle::print: the colour pair on in the window after wattron
print_pair(style, av, pair) ==
    CASE style.kind = "Attribute" -> pair
      [] style.kind = "Color" ->
            build_color_id(unwrap_or(style.foreground, av.foreground),
                           unwrap_or(style.background, av.background))
      [] style.kind = "Reset" -> build_color_id(COLOR_DEFAULT, COLOR_DEFAULT)

\* most lines a run prints
MaxStyleLines == 2
\* most attributes the stack of ACTIVE_VALUES is let grow to
MaxAttrStack == 2

\* the style state when the first line is printed
StyleStart ==
    /\ active_values = ACTIVE_VALUES
    /\ window_attrs = {}
    /\ window_pair = 0
    /\ style_line = 1
    /\ last_style = NoStyle
    /\ color_line = [foreground |-> 0, background |-> 0]
    /\ before_values = ACTIVE_VALUES

\* CursesComponent::Style(value) => CursesStyle::print
PrintStyle(style) ==
    /\ style.kind = "Attribute" /\ style.active
          => Len(active_values.attributes) < MaxAttrStack
    /\ active_values' = print_style(style, active_values)
    /\ window_attrs' = print_attrs(style, active_values, window_attrs)
    /\ window_pair' = print_pair(style, active_values, window_pair)
    /\ last_style' = style
    /\ before_values' = active_values
    /\ color_line' =
          [foreground |-> IF style.kind = "Color" /\ style.foreground # NoColor
                          THEN style_line ELSE color_line.foreground,
           background |-> IF style.kind = "Color" /\ style.background # NoColor
                          THEN style_line ELSE color_line.background]
    /\ UNCHANGED << style_line, flowVars, ansiVars, scrollVars, colorVars >>

\* AnsiLine::print: the line's components are printed, waddch('\n')
EndLine ==
    /\ style_line < MaxStyleLines
    /\ style_line' = style_line + 1
    /\ last_style' = NoStyle
    /\ UNCHANGED << active_values, window_attrs, window_pair, color_line,
                    before_values, flowVars, ansiVars, scrollVars, colorVars >>

(***************************************************************************)
(* The colour pairs (init_ansi_colors, ui/ansi_converter.rs)               *)
(***************************************************************************)
\* the array of init_ansi_colors
colors ==
    << COLOR_BLACK, COLOR_RED, COLOR_GREEN, COLOR_YELLOW, COLOR_BLUE,
       COLOR_MAGENTA, COLOR_CYAN, COLOR_WHITE, COLOR_DEFAULT >>

\* the values of the array
ColorValues == {colors[i] : i \in 1 .. Len(colors)}

\* ncurses before any init_pair
NoPairs == [id \in {} |-> << >>]

\* init_ansi_colors is not under study
ColorsStart ==
    /\ color_pairs = NoPairs
    /\ foreground_index = 1
    /\ background_index = 1
    /\ requested = << COLOR_DEFAULT, COLOR_DEFAULT >>

\* init_ansi_colors is called; a Color component will ask for `requested`
ColorsInit ==
    /\ color_pairs = NoPairs
    /\ foreground_index = 1
    /\ background_index = 1
    /\ requested \in ColorValues \X ColorValues

\* one turn of the inner loop: init_pair(id, foreground, background), which
\* replaces what the pair of that id held
InitPair ==
    /\ foreground_index <= Len(colors)
    /\ LET foreground_color == colors[foreground_index]
           background_color == colors[background_index]
           id == build_color_id(foreground_color, background_color)
       IN color_pairs' =
              (id :> << foreground_color, background_color >>) @@ color_pairs
    /\ IF background_index < Len(colors)
       THEN /\ background_index' = background_index + 1
            /\ UNCHANGED foreground_index
       ELSE /\ background_index' = 1
            /\ foreground_index' = foreground_index + 1
    /\ UNCHANGED << requested, flowVars, styleVars, ansiVars, scrollVars >>

(***************************************************************************)
(* The tokenizer (AnsiStr, ui/ansi_converter.rs)                           *)
(***************************************************************************)
\* longest str given to the tokenizer
MaxLen == 6

\* \x1b
ESC == "ESC"

Digits == {"0", "1", "2", "3", "4", "5", "6", "7", "8", "9"}

\* the characters of the strs the model tokenizes: with them a str holds
\* mapped codes (1), codes the table does not hold (5, 11, 15, ...), content
\* ("[", "m" and digits outside a token) and stray ESC
Alphabet == {ESC, "[", "1", "5", "m"}

Strs == UNION {[1 .. n -> Alphabet] : n \in 0 .. MaxLen}

\* the end of the run of \d from position i (0-based offsets, as in Rust)
RECURSIVE digits_end(_, _)
digits_end(s, i) ==
    IF i < Len(s) /\ s[i + 1] \in Digits THEN digits_end(s, i + 1) ELSE i

\* \x1b\[\d+m at offset i: the offset it ends at, or -1
token_end(s, i) ==
    IF i + 1 < Len(s) /\ s[i + 1] = ESC /\ s[i + 2] = "["
    THEN LET d == digits_end(s, i + 2)
         IN IF d > i + 2 /\ d < Len(s) /\ s[d + 1] = "m" THEN d + 1 ELSE -1
    ELSE -1

\* the end of the run of [^\x1b] from offset i
RECURSIVE content_end(_, _)
content_end(s, i) ==
    IF i < Len(s) /\ s[i + 1] # ESC THEN content_end(s, i + 1) ELSE i

\* BREAK_ANSI_MATCHER searched from offset i: group 1 where a token starts,
\* else group 2, which matches every run of [^\x1b], the empty one too
break_match(s, i) ==
    IF token_end(s, i) # -1
    THEN [group |-> 1, s |-> i, e |-> token_end(s, i)]
    ELSE [group |-> 2, s |-> i, e |-> content_end(s, i)]

\* str[s..e]
slice(s, from, to) == SubSeq(s, from + 1, to)

\* AnsiStr::strip_ansi: replace_all of STRIP_ANSI_MATCHER by ""
RECURSIVE strip_ansi(_)
strip_ansi(s) ==
    IF s = << >> THEN << >>
    ELSE IF token_end(s, 0) # -1
         THEN strip_ansi(slice(s, token_end(s, 0), Len(s)))
         ELSE << Head(s) >> \o strip_ansi(Tail(s))

\* CursesComponent::Content(content)
ContentComponent(content) == [kind |-> "Content", content |-> content, style |-> NoStyle]

\* CursesComponent::Style(style)
StyleComponent(style) == [kind |-> "Style", content |-> << >>, style |-> style]

\* a loop body that keeps the text of a token the table does not hold
push_components_keeping_unknown(comps, s, m) ==
    IF m.group = 1
    THEN LET code == slice(s, m.s + 2, m.e - 1)
         IN IF code \in DOMAIN ANSI_TO_NCURSES_MAPPING
            THEN Append(comps, StyleComponent(ANSI_TO_NCURSES_MAPPING[code]))
            ELSE Append(comps, ContentComponent(slice(s, m.s, m.e)))
    ELSE Append(comps, ContentComponent(slice(s, m.s, m.e)))

\* the body of the loop of break_to_ncurses_components for one capture
push_components(comps, s, m) ==
    IF m.group = 1
    THEN LET code == slice(s, m.s + 2, m.e - 1)
         IN IF code \in DOMAIN ANSI_TO_NCURSES_MAPPING
            THEN Append(comps, StyleComponent(ANSI_TO_NCURSES_MAPPING[code]))
            ELSE comps
    ELSE Append(comps, ContentComponent(slice(s, m.s, m.e)))

\* AnsiStr::break_to_ncurses_components as a function of the str: the
\* captures of captures_iter from last_end on, each given to the loop body
RECURSIVE captures_from(_, _, _, _)
captures_from(s, from, matched, comps) ==
    LET first == break_match(s, from)
        skip == first.e = first.s /\ from = matched
    IN IF skip /\ from >= Len(s)
       THEN comps
       ELSE LET m == IF skip THEN break_match(s, from + 1) ELSE first
            IN captures_from(s, m.e, m.e, push_components(comps, s, m))

break_to_ncurses_components(s) == captures_from(s, 0, -1, << >>)

\* no call of break_to_ncurses_components
AnsiStart ==
    /\ input = << >>
    /\ last_end = 0
    /\ last_match = -1
    /\ components = << >>
    /\ parse_done = TRUE

\* break_to_ncurses_components is called on a str
AnsiInit ==
    /\ input \in Strs
    /\ last_end = 0
    /\ last_match = -1
    /\ components = << >>
    /\ parse_done = FALSE

\* FindCaptures::next when it returns a capture: an empty match right after
\* the previous match is not accepted, the search moves on by one character
NextCapture ==
    /\ ~parse_done
    /\ last_end <= Len(input)
    /\ LET first == break_match(input, last_end)
           skip == first.e = first.s /\ last_end = last_match
           m == IF skip THEN break_match(input, last_end + 1) ELSE first
       IN /\ skip => last_end < Len(input)
          /\ last_end' = m.e
          /\ last_match' = m.e
          /\ components' = push_components(components, input, m)
    /\ UNCHANGED << input, parse_done, flowVars, styleVars, scrollVars, colorVars >>

\* FindCaptures::next when it returns None: the components are returned
EndCaptures ==
    /\ ~parse_done
    /\ LET first == break_match(input, last_end)
       IN first.e = first.s /\ last_end = last_match /\ last_end >= Len(input)
    /\ parse_done' = TRUE
    /\ UNCHANGED << input, last_end, last_match, components, flowVars,
                    styleVars, scrollVars, colorVars >>

Init == FlowInit /\ StyleStart /\ AnsiStart /\ ScrollStart /\ ColorsStart

\* a producer thread: lock the queue, push one line, unlock
Push(p) ==
    /\ lock = "none"
    /\ pushed["p1"] + pushed["p2"] < MaxPushed
    /\ pushed' = [pushed EXCEPT ![p] = @ + 1]
    /\ queue' = Append(queue, [src |-> p, seq |-> pushed[p] + 1])
    /\ UNCHANGED << styleVars, ansiVars, scrollVars, colorVars >>
    /\ UNCHANGED << running, pc, lock, pending, lines, capacity, reverse_index,
                    selected, height, virtual_height, scroll_pos, search_text, filter_mode, printed_query, appended >>

\* a tab switch that resets the scroll of the tab it arrives at, as
\* Flow::resize does
SelectMenuItemResettingScroll(direction) ==
    /\ running /\ pc = "watch"
    /\ selected' = IF direction = "Left" THEN select_previous(selected)
                                         ELSE select_next(selected)
    /\ reverse_index' = [reverse_index EXCEPT ![selected'] = 0]
    /\ virtual_height' = reset_view_height(selected', lines)
    /\ printed_query' = NoQuery
    /\ scroll_pos' = 0
    /\ UNCHANGED << styleVars, ansiVars, scrollVars, colorVars >>
    /\ UNCHANGED << running, pc, lock, queue, pending, pushed, lines, capacity,
                    height, search_text, filter_mode, appended >>

\* Event::SelectMenuItem(direction) => Flow::select_menu_item
SelectMenuItem(direction) ==
    /\ running /\ pc = "watch"
    /\ selected' = IF direction = "Left" THEN select_previous(selected)
                                         ELSE select_next(selected)
    /\ virtual_height' = reset_view_height(selected', lines)
    /\ printed_query' = NoQuery
    /\ scroll_pos' = as_i32(reverse_index[selected'])
    /\ UNCHANGED << styleVars, ansiVars, scrollVars, colorVars >>
    /\ UNCHANGED << running, pc, lock, queue, pending, pushed, lines, capacity,
                    reverse_index, height, search_text, filter_mode,
                    appended >>

\* Event::ScrollContents(offset) => Flow::scroll
ScrollContents(offset) ==
    /\ running /\ pc = "watch"
    /\ UNCHANGED << running, pc, lock, queue, pending, pushed, lines, capacity,
                    selected, height, virtual_height, search_text,
                    filter_mode, printed_query, appended >>
    /\ UNCHANGED << styleVars, ansiVars, scrollVars, colorVars >>
    /\ reverse_index' = [reverse_index EXCEPT ![selected] =
            scroll_index(@, offset, virtual_height, height)]
    /\ scroll_pos' = as_i32(reverse_index'[selected])

\* Event::Navigation(state) => frame.navigation.change_state: the state of
\* the navigation bar, which no handler of Flow reads
Navigation(state) ==
    /\ running /\ pc = "watch"
    /\ state \in {"menu", "search"}
    /\ UNCHANGED << styleVars, ansiVars, scrollVars, colorVars >>
    /\ UNCHANGED << running, pc, lock, queue, pending, pushed, lines, capacity,
                    reverse_index, selected, height, virtual_height, scroll_pos,
                    search_text, filter_mode, printed_query, appended >>

\* Event::Search(SearchAction::ReadInput(keys)) => Flow::handle_search
SearchReadInput(keys) ==
    /\ running /\ pc = "watch"
    /\ search_text' = keys
    /\ IF keys # search_text
       THEN /\ printed_query' = build_query(keys, filter_mode)
            /\ virtual_height' =
                   perform_search_height(selected, lines, printed_query')
       ELSE UNCHANGED << printed_query, virtual_height >>
    /\ UNCHANGED << styleVars, ansiVars, scrollVars, colorVars >>
    /\ UNCHANGED << running, pc, lock, queue, pending, pushed, lines, capacity,
                    reverse_index, selected, height, scroll_pos, filter_mode, appended >>

\* Event::Search(FindNextMatch | FindPreviousMatch): moves the match cursor
\* of the search widget, which the dispatcher's state does not hold
SearchFindMatch ==
    /\ running /\ pc = "watch"
    /\ UNCHANGED << styleVars, ansiVars, scrollVars, colorVars >>
    /\ UNCHANGED flowVars

\* Event::Search(SearchAction::ToggleFilterMode) => Flow::handle_search
SearchToggleFilterMode ==
    /\ running /\ pc = "watch"
    /\ filter_mode' = ~filter_mode
    /\ printed_query' = build_query(search_text, filter_mode')
    /\ virtual_height' = perform_search_height(selected, lines, printed_query')
    /\ UNCHANGED << styleVars, ansiVars, scrollVars, colorVars >>
    /\ UNCHANGED << running, pc, lock, queue, pending, pushed, lines, capacity,
                    reverse_index, selected, height, scroll_pos, search_text, appended >>

\* Event::Resize => Flow::resize
Resize(new_height) ==
    /\ running /\ pc = "watch"
    /\ height' = new_height
    /\ reverse_index' = [reverse_index EXCEPT ![selected] = 0]
    /\ virtual_height' = reset_view_height(selected, lines)
    /\ printed_query' = NoQuery
    /\ scroll_pos' = 0
    /\ UNCHANGED << styleVars, ansiVars, scrollVars, colorVars >>
    /\ UNCHANGED << running, pc, lock, queue, pending, pushed, lines, capacity,
                    selected, search_text, filter_mode, appended >>

\* Event::Quit => Flow::quit: SIGQUIT, whose handler clears RUNNING
Quit ==
    /\ running /\ pc = "watch"
    /\ running' = FALSE
    /\ UNCHANGED << styleVars, ansiVars, scrollVars, colorVars >>
    /\ UNCHANGED << pc, lock, queue, pending, pushed, lines, capacity,
                    reverse_index, selected, height, virtual_height, scroll_pos,
                    search_text, filter_mode, printed_query,
                    appended >>

\* an ingestion arm entered whether the flag is set or not
LockIgnoringFlag ==
    /\ pc = "watch"
    /\ lock = "none"
    /\ lock' = "dispatcher"
    /\ pc' = "locked"
    /\ UNCHANGED << styleVars, ansiVars, scrollVars, colorVars >>
    /\ UNCHANGED << running, queue, pending, pushed, lines, capacity,
                    reverse_index, selected, height, virtual_height, scroll_pos,
                    search_text, filter_mode, printed_query,
                    appended >>

\* any other event: lines.lock().unwrap()
Lock ==
    /\ running /\ pc = "watch"
    /\ lock = "none"
    /\ lock' = "dispatcher"
    /\ pc' = "locked"
    /\ UNCHANGED << styleVars, ansiVars, scrollVars, colorVars >>
    /\ UNCHANGED << running, queue, pending, pushed, lines, capacity,
                    reverse_index, selected, height, virtual_height, scroll_pos,
                    search_text, filter_mode, printed_query,
                    appended >>

\* a drain that copies the queue and leaves it as it is
DrainCopying ==
    /\ pc = "locked"
    /\ IF queue = << >>
       THEN /\ lock' = "none"
            /\ pc' = "watch"
            /\ UNCHANGED << queue, pending >>
       ELSE /\ pending' = queue
            /\ pc' = "drained"
            /\ UNCHANGED << lock, queue >>
    /\ UNCHANGED << styleVars, ansiVars, scrollVars, colorVars >>
    /\ UNCHANGED << running, pushed, lines, capacity, reverse_index, selected,
                    height, virtual_height, scroll_pos, search_text,
                    filter_mode, printed_query, appended >>

\* a drain whose lines are dropped instead of being appended
DrainDiscarding ==
    /\ pc = "locked"
    /\ queue' = << >>
    /\ lock' = "none"
    /\ pc' = "watch"
    /\ UNCHANGED << styleVars, ansiVars, scrollVars, colorVars >>
    /\ UNCHANGED << running, pending, pushed, lines, capacity, reverse_index,
                    selected, height, virtual_height, scroll_pos, search_text,
                    filter_mode, printed_query, appended >>

\* is_empty() / drain(..).collect(); an empty queue drops the guard at once
Drain ==
    /\ pc = "locked"
    /\ IF queue = << >>
       THEN /\ lock' = "none"
            /\ pc' = "watch"
            /\ UNCHANGED << queue, pending >>
       ELSE /\ pending' = queue
            /\ queue' = << >>
            /\ pc' = "drained"
            /\ UNCHANGED lock
    /\ UNCHANGED << styleVars, ansiVars, scrollVars, colorVars >>
    /\ UNCHANGED << running, pushed, lines, capacity, reverse_index, selected,
                    height, virtual_height, scroll_pos, search_text,
                    filter_mode, printed_query, appended >>

\* Flow::append_incoming_lines(pending_lines): mutex_guarded_lines is alive
\* in the caller, so the whole of it runs with the queue locked
AppendIncomingLines ==
    /\ pc = "drained"
    /\ LET initial_height == virtual_height
           extended == extend(lines, pending)
           new_height == reset_view_height(selected, extended)
           offset == [kind |-> "Line", value |-> new_height - initial_height]
       IN /\ virtual_height' = new_height
          /\ printed_query' = NoQuery
          /\ reverse_index' =
                IF is_scrolled(reverse_index[selected])
                THEN [reverse_index EXCEPT ![selected] =
                         scroll_index(@, offset, new_height, height)]
                ELSE reverse_index
          /\ scroll_pos' = as_i32(reverse_index'[selected])
    /\ lines' = lines_after_append(lines, pending, capacity)
    /\ appended' = appended \o pending
    /\ pending' = << >>
    /\ pc' = "appended"
    /\ UNCHANGED << styleVars, ansiVars, scrollVars, colorVars >>
    /\ UNCHANGED << running, lock, queue, pushed, capacity, selected, height,
                    search_text, filter_mode >>

\* the end of the `_` arm: mutex_guarded_lines goes out of scope
DropGuard ==
    /\ pc = "appended"
    /\ lock' = "none"
    /\ pc' = "watch"
    /\ UNCHANGED << styleVars, ansiVars, scrollVars, colorVars >>
    /\ UNCHANGED << running, queue, pending, pushed, lines, capacity,
                    reverse_index, selected, height, virtual_height, scroll_pos,
                    search_text, filter_mode, printed_query, appended >>

\* `while running!()` finds the flag cleared: Flow::process returns
Exit ==
    /\ ~running /\ pc = "watch"
    /\ pc' = "exit"
    /\ UNCHANGED << styleVars, ansiVars, scrollVars, colorVars >>
    /\ UNCHANGED << running, lock, queue, pending, pushed, lines, capacity,
                    reverse_index, selected, height, virtual_height, scroll_pos,
                    search_text, filter_mode, printed_query, appended >>

Next ==
    \/ \E p \in Producers : Push(p)
    \/ \E direction \in {"Left", "Right"} : SelectMenuItem(direction)
    \/ \E offset \in Offsets : ScrollContents(offset)
    \/ \E state \in {"menu", "search"} : Navigation(state)
    \/ \E keys \in QueryTexts : SearchReadInput(keys)
    \/ SearchFindMatch
    \/ SearchToggleFilterMode
    \/ \E new_height \in 0 .. MaxHeight : Resize(new_height)
    \/ Quit
    \/ Lock
    \/ Drain
    \/ AppendIncomingLines
    \/ DropGuard
    \/ Exit

Spec == Init /\ [][Next]_vars

\* the events Flow::process routes and the steps of its ingestion arm
Routed ==
    \/ \E direction \in {"Left", "Right"} : SelectMenuItem(direction)
    \/ \E offset \in Offsets : ScrollContents(offset)
    \/ \E state \in {"menu", "search"} : Navigation(state)
    \/ \E keys \in QueryTexts : SearchReadInput(keys)
    \/ SearchFindMatch
    \/ SearchToggleFilterMode
    \/ \E new_height \in 0 .. MaxHeight : Resize(new_height)
    \/ Quit
    \/ Lock
    \/ Drain
    \/ AppendIncomingLines
    \/ DropGuard

\* the thread of Flow::process
Dispatcher == Routed \/ Exit

\* the run whose progress is studied is configured with the largest
\* max_lines_count, which no guard of the loop reads
FairInit == Init /\ capacity = MaxCapacity

\* the dispatcher's thread is scheduled: frame.watch() returns after its
\* bounded wait and a producer gives the lock back, so the loop goes on;
\* which event watch() returns is the input backend's choice
SpecFair == FairInit /\ [][Next]_vars /\ WF_vars(Dispatcher)

\* lines printed one component after the other
StyleInit ==
    FlowInit /\ StyleStart /\ AnsiStart /\ ScrollStart /\ ColorsStart
        /\ capacity = 0 /\ height = 0

StyleNext ==
    \/ \E code \in StyleCodes : PrintStyle(ANSI_TO_NCURSES_MAPPING[code])
    \/ EndLine

SpecStyle == StyleInit /\ [][StyleNext]_vars

\* strs tokenized one capture after the other
AnsiStrInit ==
    FlowInit /\ StyleStart /\ AnsiInit /\ ScrollStart /\ ColorsStart
        /\ capacity = 0 /\ height = 0

AnsiNext ==
    \/ NextCapture
    \/ EndCaptures

SpecAnsi == AnsiStrInit /\ [][AnsiNext]_vars

\* scroll events handled one after the other, from every buffer and frame
ScrollEventsInit ==
    FlowInit /\ StyleStart /\ AnsiStart /\ ScrollInit /\ ColorsStart
        /\ capacity = 0 /\ height = 0

ScrollNext == \E offset \in Offsets : Scroll(offset)

SpecScroll == ScrollEventsInit /\ [][ScrollNext]_vars

\* init_ansi_colors, one init_pair after the other
ColorPairsInit ==
    FlowInit /\ StyleStart /\ AnsiStart /\ ScrollStart /\ ColorsInit
        /\ capacity = 0 /\ height = 0

ColorsNext == InitPair

SpecColors == ColorPairsInit /\ [][ColorsNext]_vars

(***************************************************************************)
(* The properties checked.                                                 *)
(***************************************************************************)
\* the last n elements of a sequence
LastN(seq, n) == SubSeq(seq, Len(seq) - n + 1, Len(seq))

\* C1: after every append_incoming_lines the collection holds at most
\* max_lines_count lines, and they are the most recent
\* min(total appended, capacity) lines, in arrival order.
C1_RetainsMostRecent ==
    /\ Len(lines) <= capacity
    /\ lines = LastN(appended, Min(Len(appended), capacity))

\* a batch overflowed a collection of capacity 2 and the oldest line went
C1_Witness ==
    /\ capacity = 2
    /\ Len(appended) = 3
    /\ lines = << appended[2], appended[3] >>

\* the lines of producer p in a sequence of lines
OfProducer(seq, p) == SelectSeq(seq, LAMBDA l : l.src = p)

\* C2: every pushed line is in exactly one place - appended to the
\* collection, drained and about to be appended, or still queued - so none is
\* lost or appended twice; each producer's lines keep the order of its
\* pushes; a drain takes all that is queued and leaves the queue empty.
C2_ExactlyOnceInOrder ==
    /\ \A p \in Producers :
          OfProducer(appended \o pending \o queue, p)
              = [i \in 1 .. pushed[p] |-> [src |-> p, seq |-> i]]
    /\ pc = "drained" => queue = << >> /\ pending # << >>
    /\ pc # "drained" => pending = << >>

\* lines of both producers were appended and a further push waits in the
\* queue as the dispatcher takes the lock
C2_Witness ==
    /\ OfProducer(appended, "p1") # << >>
    /\ OfProducer(appended, "p2") # << >>
    /\ queue # << >>
    /\ pc = "locked"

\* the step of the dispatcher that runs append_incoming_lines
IngestionStep == pc = "drained" /\ pc' = "appended"

\* C3: on every ingestion step a scrolled selected buffer's reverse_index
\* grows by the number of lines of the new batch its filter matches (clamped
\* to the scroll maximum), and an unscrolled one stays at 0.
C3_ScrollShiftsByNewMatches ==
    [][IngestionStep =>
          LET ri == reverse_index[selected]
              new_matching == Len(parse(selected, pending))
              maximum == Max(0, Len(parse(selected, extend(lines, pending))) - height)
          IN reverse_index'[selected] =
                 IF ri = 0 THEN 0 ELSE Min(ri + new_matching, maximum)]_vars

\* C4: every buffer's reverse_index is within
\* [0, max(0, virtual_height - viewport_height)] of its own filtered view.
C4_ReverseIndexInRange ==
    \A b \in 1 .. Len(Filters) :
        /\ 0 <= reverse_index[b]
        /\ reverse_index[b] <= Max(0, Len(parse(b, lines)) - height)

\* C5, as claimed: after a Line or Viewport scroll event, whatever its value
\* and the heights, 0 <= reverse_index <= max_value, with
\* max_value = virtual_height - viewport height.
C5_ScrollWithinMaxValue ==
    handled.kind \in {"Line", "Viewport"} =>
        /\ 0 <= buffer_index
        /\ buffer_index <= plane_virtual_height - plane_height

\* C5, amended: after a Line or Viewport scroll event
\* 0 <= reverse_index <= max(0, virtual_height - viewport height): when the
\* view is shorter than the viewport the maximum passed is negative and the
\* index is clamped to 0.
C5_ScrollWithinClampedMax ==
    handled.kind \in {"Line", "Viewport"} =>
        /\ 0 <= buffer_index
        /\ buffer_index <= Max(0, plane_virtual_height - plane_height)

\* a Line event that asked for more than the range holds was clamped to the
\* maximum of a view longer than the viewport
C5_Witness ==
    /\ handled = [kind |-> "Line", value |-> MaxScroll]
    /\ plane_height > 0
    /\ plane_virtual_height - plane_height > 0
    /\ index_before + MaxScroll > plane_virtual_height - plane_height
    /\ buffer_index = plane_virtual_height - plane_height

\* C6: Offset::Top sets the selected buffer's reverse_index to
\* virtual_height - viewport_height, and Offset::Bottom sets it to 0.
C6_TopIsHeightDifference ==
    /\ handled.kind = "Top" => buffer_index = plane_virtual_height - plane_height
    /\ handled.kind = "Bottom" => buffer_index = 0

\* C7: after a Reset component the active style state holds no attribute and
\* the default sentinel as foreground and as background.
C7_ResetRestoresDefaults ==
    last_style = Reset =>
        /\ active_values.attributes = << >>
        /\ active_values.foreground = COLOR_DEFAULT
        /\ active_values.background = COLOR_DEFAULT

\* C8: a Color component with one side keeps the other side's active value,
\* switches on the pair id(new side, kept side) and stores that pair.
C8_OneSidedColorKeepsOtherSide ==
    last_style.kind = "Color" =>
        LET fg == IF last_style.foreground = NoColor
                  THEN before_values.foreground ELSE last_style.foreground
            bg == IF last_style.background = NoColor
                  THEN before_values.background ELSE last_style.background
        IN /\ active_values.foreground = fg
           /\ active_values.background = bg
           /\ window_pair = build_color_id(fg, bg)

\* a background-only component is printed on the second line while the
\* foreground set on the first line is still active
C8_Witness ==
    /\ last_style.kind = "Color"
    /\ last_style.foreground = NoColor
    /\ style_line = 2
    /\ color_line.foreground = 1
    /\ before_values.foreground = COLOR_RED
    /\ before_values.background = COLOR_DEFAULT
    /\ active_values.foreground = COLOR_RED
    /\ active_values.background = COLOR_BLUE
    /\ window_pair = build_color_id(COLOR_RED, COLOR_BLUE)

\* the contents of the Content components, concatenated
RECURSIVE concat_content(_)
concat_content(comps) ==
    IF comps = << >> THEN << >>
    ELSE (IF Head(comps).kind = "Content" THEN Head(comps).content ELSE << >>)
             \o concat_content(Tail(comps))

\* C9: strip_ansi of the concatenated Content components of
\* break_to_ncurses_components(s) equals strip_ansi(s).
C9_StripRoundTrip ==
    parse_done => strip_ansi(concat_content(components)) = strip_ansi(input)

\* the characters of s from offset i on that belong to no ESC [ digits m token
RECURSIVE non_token_bytes(_, _)
non_token_bytes(s, i) ==
    IF i >= Len(s) THEN << >>
    ELSE IF token_end(s, i) # -1 THEN non_token_bytes(s, token_end(s, i))
         ELSE << s[i + 1] >> \o non_token_bytes(s, i + 1)

\* C10: every character that is not part of a well-formed ESC [ digits m
\* token, the ESC of a malformed sequence included, is in the Content
\* components, verbatim and in order.
C10_ContentCarriesNonTokenBytes ==
    parse_done => concat_content(components) = non_token_bytes(input, 0)

\* C11: build_color_id is injective over the 9 x 9 pairs of the 8 named
\* colours and the default sentinel, and once init_ansi_colors has run
\* ncurses holds 81 pairs, each of the 81 ids standing for the very
\* (foreground, background) the id was built from.
C11_PairIdsDistinct ==
    /\ \A f1, b1, f2, b2 \in ColorValues :
          build_color_id(f1, b1) = build_color_id(f2, b2) => f1 = f2 /\ b1 = b2
    /\ foreground_index > Len(colors) =>
          /\ Cardinality(DOMAIN color_pairs) = Len(colors) * Len(colors)
          /\ \A f, b \in ColorValues :
                /\ build_color_id(f, b) \in DOMAIN color_pairs
                /\ color_pairs[build_color_id(f, b)] = << f, b >>
          /\ color_pairs[build_color_id(requested[1], requested[2])] = requested

\* init_ansi_colors has run and the pair asked for, default on red, is the
\* one registered under its id 191
C11_Witness ==
    /\ foreground_index > Len(colors)
    /\ requested = << COLOR_DEFAULT, COLOR_RED >>
    /\ 191 \in DOMAIN color_pairs
    /\ color_pairs[191] = << COLOR_DEFAULT, COLOR_RED >>

\* C12: while a search query is active the view on display is the one
\* printed with the current query, whatever re-rendered it last (tab switch,
\* ingestion, resize, filter-mode toggle, query-text change).
C12_ViewPrintedWithCurrentQuery ==
    search_text # "" => printed_query = build_query(search_text, filter_mode)

\* C14: a step that changes the selected tab moves it by one inside
\* 1 .. number of tabs and leaves the reverse_index of every buffer and the
\* LineCollection as they were; the frame is scrolled to the offset the tab
\* arrived at had been left with.
C14_TabSwitchKeepsScroll ==
    [][selected' # selected =>
          /\ selected' \in {selected - 1, selected + 1}
          /\ selected' \in 1 .. Len(Filters)
          /\ reverse_index' = reverse_index
          /\ lines' = lines
          /\ capacity' = capacity /\ height' = height
          /\ scroll_pos' = as_i32(reverse_index[selected'])]_vars

\* the first tab was scrolled up by one line and the second tab was selected
\* after that: the first tab's offset is kept, the frame is scrolled to the
\* second tab's own offset
C14_Witness ==
    /\ selected = 2
    /\ reverse_index[1] = 1
    /\ reverse_index[2] = 0
    /\ scroll_pos = 0
    /\ Len(lines) = 2

\* C16: the dispatcher holds the queue's lock only between taking it and
\* having drained the queue: in no state has it parsed, printed, scrolled and
\* trimmed (append_incoming_lines has run) with the lock still held.
C16_LockOnlyForDrain ==
    lock = "dispatcher" => pc \in {"locked", "drained"}

\* C17: the view handed to the rendering backend never has more rows than
\* max_lines_count, being derived from a collection of at most that many
\* lines; with capacity 0 no line is rendered.
C17_ViewWithinCapacity ==
    /\ virtual_height <= capacity
    /\ capacity = 0 => virtual_height = 0

\* C18: the attribute stack of ACTIVE_VALUES holds exactly the attributes that
\* are on in the window (switched on and not since switched off or cleared
\* by Reset), each of them once.
C18_StackTracksActiveAttributes ==
    LET stack == active_values.attributes
    IN /\ {stack[i] : i \in 1 .. Len(stack)} = window_attrs
       /\ Cardinality({stack[i] : i \in 1 .. Len(stack)}) = Len(stack)

\* the code between "[" and "m" of the token at offset i
code_at(s, i) == slice(s, i + 2, token_end(s, i) - 1)

\* s from offset i on without the well-formed tokens the table does not hold
RECURSIVE without_unknown(_, _)
without_unknown(s, i) ==
    IF i >= Len(s) THEN << >>
    ELSE IF token_end(s, i) # -1
         THEN (IF code_at(s, i) \in DOMAIN ANSI_TO_NCURSES_MAPPING
               THEN slice(s, i, token_end(s, i)) ELSE << >>)
                  \o without_unknown(s, token_end(s, i))
         ELSE << s[i + 1] >> \o without_unknown(s, i + 1)

\* the styles of the well-formed tokens of s the table holds, from offset i on
RECURSIVE mapped_styles(_, _)
mapped_styles(s, i) ==
    IF i >= Len(s) THEN << >>
    ELSE IF token_end(s, i) # -1
         THEN (IF code_at(s, i) \in DOMAIN ANSI_TO_NCURSES_MAPPING
               THEN << ANSI_TO_NCURSES_MAPPING[code_at(s, i)] >> ELSE << >>)
                  \o mapped_styles(s, token_end(s, i))
         ELSE mapped_styles(s, i + 1)

\* the styles of the Style components, in order
RECURSIVE styles_of(_)
styles_of(comps) ==
    IF comps = << >> THEN << >>
    ELSE (IF Head(comps).kind = "Style" THEN << Head(comps).style >> ELSE << >>)
             \o styles_of(Tail(comps))

\* a is b with some elements left out
RECURSIVE IsSubsequence(_, _)
IsSubsequence(a, b) ==
    IF a = << >> THEN TRUE
    ELSE IF b = << >> THEN FALSE
    ELSE IF Head(a) = Head(b) THEN IsSubsequence(Tail(a), Tail(b))
    ELSE IsSubsequence(a, Tail(b))

\* C19, as claimed: the components of a str are those of the str with its
\* well-formed tokens of unmapped code taken out.
C19_UnknownTokenAsIfAbsent ==
    parse_done =>
        components = break_to_ncurses_components(without_unknown(input, 0))

\* C19, amended: a well-formed token of unmapped code yields no Style
\* component - the Style components are the mapped tokens, in order - and
\* none of its bytes is in a Content component: the contents hold, in order,
\* only bytes outside the well-formed tokens; the text before and the text
\* after the token stay two components.
C19_UnknownTokenDropped ==
    parse_done =>
        /\ styles_of(components) = mapped_styles(input, 0)
        /\ IsSubsequence(concat_content(components), non_token_bytes(input, 0))
        /\ \A i \in 1 .. Len(components) :
              components[i].kind = "Content" => ESC \notin
                  {components[i].content[j] : j \in 1 .. Len(components[i].content)}

\* ESC [ 5 m, a code the table does not hold, between two "m": the token
\* left nothing and the text around it is in two components
C19_Witness ==
    /\ parse_done
    /\ input = << "m", ESC, "[", "5", "m", "m" >>
    /\ components = << ContentComponent(<< "m" >>), ContentComponent(<< "m" >>) >>

\* C20: a Viewport(+1) event followed by a Viewport(-1) event, starting from
\* an index in range and both landing strictly between 0 and the maximum (so
\* neither was clamped), leaves the reverse_index where it started.
C20_PageUpThenDownReturns ==
    (/\ handled_before = [kind |-> "Viewport", value |-> 1]
     /\ handled = [kind |-> "Viewport", value |-> -1]
     /\ 0 <= index_start /\ index_start <= plane_virtual_height - plane_height
     /\ 0 < index_before /\ index_before < plane_virtual_height - plane_height
     /\ 0 < buffer_index /\ buffer_index < plane_virtual_height - plane_height)
        => buffer_index = index_start

\* C13: Flow::process has returned only with the flag cleared; the flag is
\* cleared by no step but the routing of Quit; with the flag cleared the
\* iteration is over (no lock held, nothing drained and pending) and no
\* event can be routed nor the queue drained any more; and the loop then
\* terminates.
C13_LoopEndsOnlyOnQuit ==
    /\ [](pc = "exit" => ~running)
    /\ [][running' # running => Quit]_vars
    /\ [](~running =>
            /\ pc \in {"watch", "exit"}
            /\ lock = "none"
            /\ pending = << >>
            /\ ~ENABLED Routed)
    /\ (~running ~> pc = "exit")

\* Quit was routed after a batch had been appended and with a line still
\* queued: the loop is over and the line is left in the queue
C13_Witness ==
    /\ pc = "exit"
    /\ ~running
    /\ appended # << >>
    /\ queue # << >>
    /\ reverse_index[selected] # 0

\* lines pushed by the producers together
TotalPushed == pushed["p1"] + pushed["p2"]

\* every line pushed so far has been appended, or Quit has ended the loop
CaughtUp == Len(appended) = TotalPushed \/ ~running

\* C15, as claimed: with the dispatcher's thread scheduled fairly, whenever a
\* pushed line is not yet appended, a state follows in which every line
\* pushed has been appended (lines are appended in the order of their push)
\* unless Quit ends the loop - whatever events the input backend delivers.
C15_EveryPushedLineAppended ==
    (Len(appended) < TotalPushed) ~> CaughtUp

\* C15, amended: the same, provided the input backend again and again
\* reports no event, which is the only case in which the queue is drained.
C15_AppendedWhenPollTimesOut ==
    []<>(pc = "locked") => ((Len(appended) < TotalPushed) ~> CaughtUp)

\* every line of the run was pushed and appended, the loop still running,
\* after the user had switched tab and scrolled
C15_Witness ==
    /\ running /\ pc = "watch"
    /\ TotalPushed = MaxPushed
    /\ Len(appended) = MaxPushed
    /\ selected = 2
    /\ search_text = "ERROR"

====
